---- MODULE Spec2Model ----
(***************************************************************************)
(* State-machine model of src/main.py: the Google Contacts fetch script.   *)
(* One run of main() is modelled: the two ensure_refresh_token calls, then *)
(* for Account1 and Account2 get_all_contacts, the 'contacts' snapshot,    *)
(* get_group_list and the 'groups' snapshot.  The remote People API, the   *)
(* OAuth flow and the file system are the environment: every request,      *)
(* every flow and every file write either succeeds or fails.               *)
(***************************************************************************)
EXTENDS Integers, Sequences, FiniteSets, TLC

\* ------------------------------------------------------------------ bounds
\* largest number of pages of a remote contact listing
MaxPages == 2
\* number of connections the remote puts on every non-final page
RemotePageSize == 200

\* ------------------------------------------------------- program constants
\* main.py:210, the slice width and the range step of the chunking
ChunkSize == 200

\* main.py:270-274, the fixed pair of accounts, in order
Accounts == <<"Account1", "Account2">>

\* Python's None.  The empty string "" is the empty option value of the file.
None == "None"

\* ------------------------------------------------------------ input sets
\* sizes of the final page of a listing
LastPageSizes == {0, 250}
\* resource identifiers for which batch-get returns an entry without 'person',
\* in a remote whose last page is partly filled
Gone == {1, 200, 201}
\* what the interactive flow yields: a refresh token, or None when it raised
FlowOutcomes == {"r1", None}

VARIABLES
    pc,              \* position in main()
    acct,            \* index in Accounts of the account being handled
    status,          \* "running", "done", or how the process ended
    config,          \* the in-memory ConfigParser object
    file,            \* the contents of settings.conf
    snapshots,       \* data/<date>.<account>_<kind>.json files, by <<account, kind>>
    page_token,      \* local of get_all_contacts / get_group_list
    sync_token,      \* local of get_all_contacts / get_group_list
    resource_names,  \* local of get_all_contacts
    results,         \* local: the last list response
    contacts,        \* local of get_all_contacts, then of main
    chunkIdx,        \* position of the for loop over chunked_resource_names
    groups,          \* local of get_group_list, then of main
    remote,          \* the remote account's contacts, fixed when their fetch starts
    remoteGroups,    \* the remote account's groups, fixed when their fetch starts
    config0,         \* history: the configuration read at start-up
    log,             \* history: requests, snapshot writes and config writes
    batches,         \* history: batch-get requests and responses of this call
    flowCalls,       \* history: interactive flows started, per account
    flowResult,      \* history: what the flow of an account returned
    flowSaved,       \* history: did the write of that refresh token succeed
    lastWriteOk,     \* history: did the latest write_credentials succeed
    credFail         \* history: the get_credentials calls that found no valid credentials

vars == <<pc, acct, status, config, file, snapshots, page_token, sync_token,
          resource_names, results, contacts, chunkIdx, groups, remote,
          remoteGroups, config0, log, batches, flowCalls, flowResult, flowSaved, lastWriteOk, credFail>>

locals == <<page_token, sync_token, resource_names, results, contacts, chunkIdx, groups>>

AccountSet == {Accounts[i] : i \in 1..Len(Accounts)}

\* ------------------------------------------------------------- helpers
\* dict.get(key): None when the key is absent
Get(d, key) == IF key \in DOMAIN d THEN d[key] ELSE None

\* dict.get(key, default)
GetD(d, key, default) == IF key \in DOMAIN d THEN d[key] ELSE default

\* `x or None` (main.py:182, 228): an empty string becomes None
OrNone(x) == IF x = "" THEN None ELSE x

\* ConfigParser refuses a value that is not a string: assigning None raises TypeError
SetOptionRaises(value) == value = None

\* faulty variant of refresh_token_exists: the test is inverted
TokenMissing(refresh_token) == refresh_token = ""

\* main.py:118-127
refresh_token_exists(refresh_token) == refresh_token # ""

\* faulty variant of write_credentials: the file is never rewritten
NeverWritten(ok, cfg, old) == old

\* main.py:107-115: the new contents of the settings file
write_credentials(ok, cfg, old) == IF ok THEN cfg ELSE old

\* faulty variant of write_credentials_raises: the except clause is missing
Propagates(ok) == ~ok

\* main.py:109-115: try/except Exception, the error is logged and not re-raised
write_credentials_raises(ok) == FALSE

\* main.py:249-260: no try/except, an OSError of open or json.dump propagates
save_to_file_raises(ok) == ~ok

\* main.py:249-260: the snapshot files after writing `data`
save_to_file(data_type, account, data, files) ==
    [k \in DOMAIN files \cup {<<account, data_type>>} |->
        IF k = <<account, data_type>> THEN data ELSE files[k]]

\* faulty variant of get_credentials: the sys.exit(1) branch is missing
NoExit(refresh_token, expired, refreshed) ==
    IF expired /\ refresh_token # "" /\ ~refreshed THEN "RefreshError" ELSE "creds"

\* main.py:147-166.  from_authorized_user_info is given no access token, so
\* creds.valid is False; creds.expired is the library's answer.
get_credentials(refresh_token, expired, refreshed) ==
    IF expired /\ refresh_token # ""
    THEN IF refreshed THEN "creds" ELSE "RefreshError"
    ELSE "exit1"

\* one entry of the history
Event(op, account, pageTok, syncTok, kind) ==
    [op |-> op, account |-> account, pageToken |-> pageTok, syncToken |-> syncTok, kind |-> kind]

\* ------------------------------------------------------------ the remote
PageToken(k) == "page" \o ToString(k)
SyncToken(k) == "s" \o ToString(k)

\* the page a request with this pageToken asks for
PageIndex(tok) == IF tok = None THEN 1 ELSE CHOOSE k \in 1..(MaxPages + 1) : PageToken(k) = tok

PageSize(k) == IF k = remote.numPages THEN remote.lastSize ELSE RemotePageSize

Connections(k) ==
    [j \in 1..PageSize(k) |-> [resourceName |-> (k - 1) * RemotePageSize + j]]

\* people.connections.list: page k of the listing
ListResponse(k) ==
    LET more == k < remote.numPages
        sync == (k = remote.numPages) \/ remote.midSync
    IN  CASE more /\ sync ->
               [connections |-> Connections(k), nextPageToken |-> PageToken(k + 1),
                nextSyncToken |-> SyncToken(k)]
          [] more /\ ~sync ->
               [connections |-> Connections(k), nextPageToken |-> PageToken(k + 1)]
          [] ~more /\ sync ->
               [connections |-> Connections(k), nextSyncToken |-> SyncToken(k)]
          [] OTHER -> [connections |-> Connections(k)]

\* people.getBatchGet: one entry per requested name, in request order
BatchResponse(chunk) ==
    [responses |->
        [j \in 1..Len(chunk) |->
            IF chunk[j] \in remote.gone
            THEN [requestedResourceName |-> chunk[j], status |-> "NOT_FOUND"]
            ELSE [requestedResourceName |-> chunk[j],
                  person |-> [resourceName |-> chunk[j]]]]]

\* contactGroups.list: the first page
GroupsResponse ==
    LET gs == <<[resourceName |-> "contactGroups/a"], [resourceName |-> "contactGroups/b"]>>
    IN  CASE remoteGroups.more /\ remoteGroups.sync ->
               [contactGroups |-> gs, nextPageToken |-> PageToken(2), nextSyncToken |-> "g1"]
          [] remoteGroups.more /\ ~remoteGroups.sync ->
               [contactGroups |-> gs, nextPageToken |-> PageToken(2)]
          [] ~remoteGroups.more /\ remoteGroups.sync ->
               [contactGroups |-> gs, nextSyncToken |-> "g1"]
          [] OTHER -> [contactGroups |-> gs]

\* the remote contact data of one account.  Fields that cannot show are fixed:
\* midSync with a single page, lastSize behind a page that carries no sync token
\* (the fetch ends there).  Every person exists when the last page is empty.
Remotes ==
    { r \in [numPages : 1..MaxPages, lastSize : LastPageSizes, midSync : BOOLEAN,
             gone : {{}, Gone}] :
        /\ r.numPages = 1 => r.midSync
        /\ ~r.midSync => r.lastSize = 0
        /\ r.gone = IF r.lastSize = 0 THEN {} ELSE Gone }

\* the remote contact groups of one account: is there a second page, and does
\* the first page carry a nextSyncToken (without one the fetch ends there)
RemoteGroups == { r \in [more : BOOLEAN, sync : BOOLEAN] : ~r.sync => ~r.more }

\* ------------------------------------------------------------- initial state
AccountConfigs ==
    { [refresh_token |-> "", contactsSyncToken |-> "", groupSyncToken |-> ""],
      [refresh_token |-> "r0", contactsSyncToken |-> "s0", groupSyncToken |-> "g0"] }

NoResults == [connections |-> <<>>]

\* the remote before a fetch has fixed it
NoRemote == [numPages |-> 1, lastSize |-> 0, midSync |-> TRUE, gone |-> {}]

NoRemoteGroups == [more |-> FALSE, sync |-> TRUE]

Init ==
    /\ config \in [AccountSet -> AccountConfigs]
    /\ file = config
    /\ config0 = config
    /\ pc = "ensure"
    /\ acct = 1
    /\ status = "running"
    /\ snapshots = <<>>
    /\ page_token = None
    /\ sync_token = None
    /\ resource_names = <<>>
    /\ results = NoResults
    /\ contacts = <<>>
    /\ chunkIdx = 0
    /\ groups = <<>>
    /\ remote = NoRemote
    /\ remoteGroups = NoRemoteGroups
    /\ log = <<>>
    /\ batches = <<>>
    /\ flowCalls = [a \in AccountSet |-> 0]
    /\ flowResult = [a \in AccountSet |-> "not called"]
    /\ flowSaved = [a \in AccountSet |-> FALSE]
    /\ lastWriteOk = TRUE
    /\ credFail = {}

\* ------------------------------------------------------------- the actions
Running == status = "running"

Account == Accounts[acct]

\* what ends a call that raised: the exception reaches the top of main()
Raise(kind) ==
    /\ status' = kind
    /\ UNCHANGED <<pc, acct>>

\* main.py:130-134
ensure_refresh_token ==
    /\ Running /\ pc = "ensure"
    /\ IF refresh_token_exists(config[Account].refresh_token)
       THEN IF acct < Len(Accounts)
            THEN acct' = acct + 1 /\ pc' = "ensure"
            ELSE acct' = 1 /\ pc' = "contacts"
       ELSE pc' = "generate" /\ UNCHANGED acct
    /\ UNCHANGED <<status, config, file, snapshots, locals, remote, remoteGroups,
                   config0, log, batches, flowCalls, flowResult, flowSaved,
                   lastWriteOk, credFail>>

\* main.py:137-144, with get_refresh_token (83-104) and write_credentials (107-115)
generate_and_save_refresh_token ==
    /\ Running /\ pc = "generate"
    /\ \E refresh_token \in FlowOutcomes, wok \in BOOLEAN :
        /\ flowCalls' = [flowCalls EXCEPT ![Account] = @ + 1]
        /\ flowResult' = [flowResult EXCEPT ![Account] = refresh_token]
        /\ IF SetOptionRaises(refresh_token)
           THEN /\ Raise("TypeError")
                /\ UNCHANGED <<config, file, log, lastWriteOk, flowSaved>>
           ELSE /\ config' = [config EXCEPT ![Account].refresh_token = refresh_token]
                /\ file' = write_credentials(wok, config', file)
                /\ lastWriteOk' = wok
                /\ flowSaved' = [flowSaved EXCEPT ![Account] = wok]
                /\ log' = Append(log, Event("write_credentials", Account, None, None, None))
                /\ IF write_credentials_raises(wok)
                   THEN Raise("IOError")
                   ELSE /\ status' = status
                        /\ IF acct < Len(Accounts)
                           THEN acct' = acct + 1 /\ pc' = "ensure"
                           ELSE acct' = 1 /\ pc' = "contacts"
    /\ UNCHANGED <<snapshots, locals, remote, remoteGroups, config0, batches, credFail>>

\* get_credentials as called at main.py:177 and 224: the next position is `next`
CallGetCredentials(next, expired, refreshed) ==
    LET outcome == get_credentials(config[Account].refresh_token, expired, refreshed)
        usable == expired /\ config[Account].refresh_token # "" /\ refreshed
    IN  /\ credFail' = IF usable THEN credFail
                       ELSE credFail \cup {[account |-> Account, at |-> Len(log)]}
        /\ IF outcome = "creds"
           THEN pc' = next /\ UNCHANGED <<status, acct>>
           ELSE Raise(outcome)

\* main.py:174-183: get_all_contacts up to its loop
get_all_contacts ==
    /\ Running /\ pc = "contacts"
    /\ \E expired \in BOOLEAN, refreshed \in BOOLEAN :
        /\ CallGetCredentials("list", expired, refreshed)
        /\ IF status' = "running"
           THEN /\ \E r \in Remotes : remote' = r
                /\ resource_names' = <<>>
                /\ page_token' = None
                /\ sync_token' = OrNone(config[Account].contactsSyncToken)
                /\ results' = NoResults
                /\ contacts' = <<>>
                /\ chunkIdx' = 0
                /\ batches' = <<>>
                /\ UNCHANGED groups
           ELSE UNCHANGED <<locals, remote, batches>>
    /\ UNCHANGED <<config, file, snapshots, remoteGroups, config0, log,
                   flowCalls, flowResult, flowSaved, lastWriteOk>>

\* main.py:186-195: one people.connections.list request
connections_list ==
    /\ Running /\ pc = "list"
    /\ log' = Append(log, Event("connections.list", Account, page_token, sync_token, None))
    /\ \E ok \in BOOLEAN :
        IF ok
        THEN /\ results' = ListResponse(PageIndex(page_token))
             /\ pc' = "page"
             /\ UNCHANGED <<status, acct>>
        ELSE /\ Raise("HttpError")
             /\ UNCHANGED results
    /\ UNCHANGED <<config, file, snapshots, page_token, sync_token, resource_names,
                   contacts, chunkIdx, groups, remote, remoteGroups, config0, batches, flowCalls,
                   flowResult, flowSaved, lastWriteOk, credFail>>

Min(a, b) == IF a < b THEN a ELSE b

\* faulty variant of Chunks: slices of width 199 at a step of 200
ShortChunks(names) ==
    LET count == (Len(names) + ChunkSize - 1) \div ChunkSize
    IN  [c \in 1..count |->
            SubSeq(names, (c - 1) * ChunkSize + 1, Min(c * ChunkSize - 1, Len(names)))]

\* main.py:210: the slices names[i:i + 200] for i in range(0, len(names), 200)
Chunks(names) ==
    LET count == (Len(names) + ChunkSize - 1) \div ChunkSize
    IN  [c \in 1..count |->
            SubSeq(names, (c - 1) * ChunkSize + 1, Min(c * ChunkSize, Len(names)))]

chunked_resource_names == Chunks(resource_names)

\* main.py:197-207: the rest of one iteration of the page loop
handle_page ==
    /\ Running /\ pc = "page"
    /\ \E sok \in BOOLEAN, wok \in BOOLEAN :
        IF save_to_file_raises(sok)
        THEN /\ Raise("IOError")
             /\ log' = Append(log, Event("save_to_file", Account, None, None, "raw_contacts"))
             /\ UNCHANGED <<snapshots, config, file, lastWriteOk, resource_names, page_token>>
        ELSE
          /\ snapshots' = IF sok THEN save_to_file("raw_contacts", Account, results, snapshots)
                          ELSE snapshots
          /\ IF SetOptionRaises(Get(results, "nextSyncToken"))
             THEN /\ Raise("TypeError")
                  /\ log' = Append(log, Event("save_to_file", Account, None, None, "raw_contacts"))
                  /\ UNCHANGED <<config, file, lastWriteOk, resource_names, page_token>>
             ELSE /\ config' = [config EXCEPT ![Account].contactsSyncToken =
                                                  Get(results, "nextSyncToken")]
                  /\ file' = write_credentials(wok, config', file)
                  /\ lastWriteOk' = wok
                  /\ log' = log \o <<Event("save_to_file", Account, None, None, "raw_contacts"),
                                     Event("write_credentials", Account, None, None, None)>>
                  /\ IF write_credentials_raises(wok)
                     THEN /\ Raise("IOError")
                          /\ UNCHANGED <<resource_names, page_token>>
                     ELSE /\ resource_names' = resource_names \o
                                [j \in 1..Len(GetD(results, "connections", <<>>)) |->
                                    GetD(results, "connections", <<>>)[j].resourceName]
                          /\ page_token' = Get(results, "nextPageToken")
                          /\ status' = status /\ acct' = acct
                          /\ pc' = IF page_token' # None /\ page_token' # ""
                                   THEN "list"
                                   ELSE IF Len(Chunks(resource_names')) = 0
                                        THEN "save_contacts" ELSE "batch"
    /\ chunkIdx' = 1
    /\ UNCHANGED <<sync_token, results, contacts, groups, remote, remoteGroups, config0, batches,
                   flowCalls, flowResult, flowSaved, credFail>>

\* main.py:217: the 'person' of every response entry that has one, in order
Persons(responses) ==
    LET kept == SelectSeq(responses, LAMBDA person : "person" \in DOMAIN person)
    IN  [j \in 1..Len(kept) |-> kept[j].person]

\* faulty variant of getBatchGet_raises: the error is caught and dropped
Swallowed(ok) == FALSE

\* main.py:213-216: execute() is not guarded, an HttpError propagates
getBatchGet_raises(ok) == ~ok

\* main.py:212-219: one iteration of the batch loop; after the last, the return
getBatchGet ==
    /\ Running /\ pc = "batch"
    /\ LET chunk == chunked_resource_names[chunkIdx]
       IN  /\ log' = Append(log, Event("getBatchGet", Account, None, None, None))
           /\ \E ok \in BOOLEAN :
                IF ~getBatchGet_raises(ok)
                THEN LET batch_get_results == IF ok THEN BatchResponse(chunk) ELSE <<>>
                     IN  /\ contacts' = contacts \o
                                Persons(GetD(batch_get_results, "responses", <<>>))
                         /\ batches' = Append(batches,
                                IF ok THEN [resourceNames |-> chunk, results |-> batch_get_results]
                                ELSE [resourceNames |-> chunk])
                         /\ chunkIdx' = chunkIdx + 1
                         /\ pc' = IF chunkIdx < Len(chunked_resource_names)
                                  THEN "batch" ELSE "save_contacts"
                         /\ UNCHANGED <<status, acct>>
                ELSE /\ Raise("HttpError")
                     /\ batches' = Append(batches, [resourceNames |-> chunk])
                     /\ UNCHANGED <<contacts, chunkIdx>>
    /\ UNCHANGED <<config, file, snapshots, page_token, sync_token, resource_names,
                   results, groups, remote, remoteGroups, config0, flowCalls,
                   flowResult, flowSaved, lastWriteOk, credFail>>

\* main.py:276: the 'contacts' snapshot of the returned list
save_contacts ==
    /\ Running /\ pc = "save_contacts"
    /\ log' = Append(log, Event("save_to_file", Account, None, None, "contacts"))
    /\ \E sok \in BOOLEAN :
        IF save_to_file_raises(sok)
        THEN /\ Raise("IOError")
             /\ UNCHANGED snapshots
        ELSE /\ snapshots' = IF sok THEN save_to_file("contacts", Account, contacts, snapshots)
                             ELSE snapshots
             /\ pc' = "groups"
             /\ UNCHANGED <<status, acct>>
    /\ UNCHANGED <<config, file, locals, remote, remoteGroups, config0, batches,
                   flowCalls, flowResult, flowSaved, lastWriteOk, credFail>>

\* main.py:222-229: get_group_list up to its request.  The locals of the
\* get_all_contacts call that returned are gone.
get_group_list ==
    /\ Running /\ pc = "groups"
    /\ \E expired \in BOOLEAN, refreshed \in BOOLEAN :
        /\ CallGetCredentials("groups_list", expired, refreshed)
        /\ IF status' = "running"
           THEN /\ \E r \in RemoteGroups : remoteGroups' = r
                /\ page_token' = None
                /\ sync_token' = OrNone(config[Account].groupSyncToken)
                /\ results' = NoResults
                /\ resource_names' = <<>>
                /\ contacts' = <<>>
                /\ chunkIdx' = 0
                /\ groups' = <<>>
                /\ batches' = <<>>
           ELSE UNCHANGED <<locals, remoteGroups, batches>>
    /\ UNCHANGED <<config, file, snapshots, remote, config0, log, flowCalls,
                   flowResult, flowSaved, lastWriteOk>>

\* main.py:232-237: the contactGroups.list request
contactGroups_list ==
    /\ Running /\ pc = "groups_list"
    /\ log' = Append(log, Event("contactGroups.list", Account, page_token, sync_token, None))
    /\ \E ok \in BOOLEAN :
        IF ok
        THEN /\ results' = GroupsResponse
             /\ pc' = "groups_page"
             /\ UNCHANGED <<status, acct>>
        ELSE /\ Raise("HttpError")
             /\ UNCHANGED results
    /\ UNCHANGED <<config, file, snapshots, page_token, sync_token, resource_names,
                   contacts, chunkIdx, groups, remote, remoteGroups, config0, batches,
                   flowCalls, flowResult, flowSaved, lastWriteOk, credFail>>

\* faulty variant of after_groups_page: the request is repeated while the
\* response has a nextPageToken
PagingGroups(response) ==
    IF Get(response, "nextPageToken") # None THEN "groups_list" ELSE "save_groups"

\* main.py:244-246: the groups are returned whatever nextPageToken the response has
after_groups_page(response) == "save_groups"

\* main.py:239-246: the rest of get_group_list
handle_groups ==
    /\ Running /\ pc = "groups_page"
    /\ \E sok \in BOOLEAN, wok \in BOOLEAN :
        IF save_to_file_raises(sok)
        THEN /\ Raise("IOError")
             /\ log' = Append(log, Event("save_to_file", Account, None, None, "raw_groups"))
             /\ UNCHANGED <<snapshots, config, file, lastWriteOk, groups>>
        ELSE
          /\ snapshots' = IF sok THEN save_to_file("raw_groups", Account, results, snapshots)
                          ELSE snapshots
          /\ IF SetOptionRaises(Get(results, "nextSyncToken"))
             THEN /\ Raise("TypeError")
                  /\ log' = Append(log, Event("save_to_file", Account, None, None, "raw_groups"))
                  /\ UNCHANGED <<config, file, lastWriteOk, groups>>
             ELSE /\ config' = [config EXCEPT ![Account].groupSyncToken =
                                                  Get(results, "nextSyncToken")]
                  /\ file' = write_credentials(wok, config', file)
                  /\ lastWriteOk' = wok
                  /\ log' = log \o <<Event("save_to_file", Account, None, None, "raw_groups"),
                                     Event("write_credentials", Account, None, None, None)>>
                  /\ IF write_credentials_raises(wok)
                     THEN /\ Raise("IOError")
                          /\ UNCHANGED groups
                     ELSE /\ groups' = GetD(results, "contactGroups", <<>>)
                          /\ status' = status /\ acct' = acct
                          /\ pc' = after_groups_page(results)
    /\ UNCHANGED <<page_token, sync_token, resource_names, results, contacts, chunkIdx,
                   remote, remoteGroups, config0, batches, flowCalls, flowResult, flowSaved, credFail>>

\* main.py:274-281: the 'groups' snapshot, then the next account or the end
save_groups ==
    /\ Running /\ pc = "save_groups"
    /\ log' = Append(log, Event("save_to_file", Account, None, None, "groups"))
    /\ \E sok \in BOOLEAN :
        IF save_to_file_raises(sok)
        THEN /\ Raise("IOError")
             /\ UNCHANGED snapshots
        ELSE /\ snapshots' = IF sok THEN save_to_file("groups", Account, groups, snapshots)
                             ELSE snapshots
             /\ IF acct < Len(Accounts)
                THEN acct' = acct + 1 /\ pc' = "contacts" /\ status' = status
                ELSE acct' = acct /\ pc' = "end" /\ status' = "done"
    /\ UNCHANGED <<config, file, locals, remote, remoteGroups, config0, batches,
                   flowCalls, flowResult, flowSaved, lastWriteOk, credFail>>

Next ==
    \/ ensure_refresh_token
    \/ generate_and_save_refresh_token
    \/ get_all_contacts
    \/ connections_list
    \/ handle_page
    \/ getBatchGet
    \/ save_contacts
    \/ get_group_list
    \/ contactGroups_list
    \/ handle_groups
    \/ save_groups

Spec == Init /\ [][Next]_vars

\* ------------------------------------------------ vocabulary of the claims
AccountIndex(a) == CHOOSE i \in 1..Len(Accounts) : Accounts[i] = a

\* the history entries of one operation of one account, in order
Events(op, a) == SelectSeq(log, LAMBDA e : e.op = op /\ e.account = a)

Saves(kind, a) ==
    SelectSeq(log, LAMBDA e : e.op = "save_to_file" /\ e.account = a /\ e.kind = kind)

FetchRequests ==
    SelectSeq(log, LAMBDA e : e.op \in {"connections.list", "getBatchGet", "contactGroups.list"})

\* a request for a page after the first is about to be issued, or was issued
\* and failed (the exception leaves the position where it was raised)
AtNextPageRequest == pc = "list" /\ page_token # None

\* the page loop of the current get_all_contacts call has been left, normally
\* or by the TypeError of the assignment at main.py:198
PageLoopLeft == pc \in {"batch", "save_contacts"} \/ (pc = "page" /\ status = "TypeError")

EnsureOver(a) ==
    \/ pc \notin {"ensure", "generate"}
    \/ AccountIndex(a) < acct
    \/ (Account = a /\ pc = "generate" /\ status # "running")

FlowSucceeded(a) == flowResult[a] \notin {"not called", None}

FlowCount ==
    \A a \in AccountSet :
        /\ flowCalls[a] <= 1
        /\ flowCalls[a] = 1 => config0[a].refresh_token = ""
        /\ EnsureOver(a) =>
              flowCalls[a] = (IF config0[a].refresh_token = "" THEN 1 ELSE 0)

PageRequests == Events("connections.list", Account)

\* C3 as stated: when the page loop of a listing of N pages has been left, N
\* page requests were issued, the first without a page token and each later one
\* with the token the previous page returned, and N raw_contacts snapshots
\* were written.  It is stated for the runs in which the settings file holds all
\* that is in memory (no write was lost); every request issued has succeeded
\* in the states it speaks of.
C3_Original ==
    (PageLoopLeft /\ file = config) =>
        /\ Len(PageRequests) = remote.numPages
        /\ \A k \in 1..Len(PageRequests) :
              PageRequests[k].pageToken = (IF k = 1 THEN None ELSE PageToken(k))
        /\ Len(Saves("raw_contacts", Account)) = remote.numPages

\* ----------------------------------------------------------------- C4
RECURSIVE Flatten(_)
Flatten(seqs) == IF Len(seqs) = 0 THEN <<>> ELSE Head(seqs) \o Flatten(Tail(seqs))

RequestedChunks == [i \in 1..Len(batches) |-> batches[i].resourceNames]

AnsweredEntries ==
    Flatten([i \in 1..Len(batches) |->
                IF "results" \in DOMAIN batches[i]
                THEN batches[i].results.responses ELSE <<>>])

\* C4: the batch-get requests issued so far carry consecutive slices of the
\* accumulated list, all of ChunkSize names except possibly the one that ends the
\* list; when the loop is over there are ceil(n / ChunkSize) of them and they
\* cover the list; the contact list is the 'person' of every response entry
\* that has one, in batch order and response order.
C4_BatchChunking ==
    pc \in {"batch", "save_contacts"} =>
        LET n == Len(resource_names)
            sent == Flatten(RequestedChunks)
            withPerson == SelectSeq(AnsweredEntries, LAMBDA e : "person" \in DOMAIN e)
        IN  /\ Len(sent) <= n
            /\ sent = SubSeq(resource_names, 1, Len(sent))
            /\ \A i \in 1..Len(batches) :
                  /\ Len(RequestedChunks[i]) \in 1..ChunkSize
                  /\ Len(RequestedChunks[i]) < ChunkSize => (i = Len(batches) /\ Len(sent) = n)
            /\ (pc = "save_contacts") =>
                  /\ sent = resource_names
                  /\ Len(batches) * ChunkSize >= n
                  /\ (Len(batches) - 1) * ChunkSize < n \/ (n = 0 /\ Len(batches) = 0)
            /\ contacts = [j \in 1..Len(withPerson) |-> withPerson[j].person]
            /\ \A j \in 1..Len(contacts) : contacts[j].resourceName \notin remote.gone

\* 450 names went out as 200, 200 and 50, and the three entries without a
\* person are not in the returned list
C4_Witness ==
    /\ pc = "save_contacts" /\ status = "running"
    /\ Len(resource_names) = 450
    /\ [i \in 1..Len(batches) |-> Len(batches[i].resourceNames)] = <<200, 200, 50>>
    /\ Len(contacts) = 447

\* no name at all: the loop is left without any batch-get request
C4_WitnessEmpty ==
    pc = "save_contacts" /\ Len(resource_names) = 0 /\ Len(batches) = 0 /\ contacts = <<>>

\* ----------------------------------------------------------------- C5
\* C5 as stated: every page request of an account carries the contactsSyncToken
\* stored for it at start-up (None for an empty one); and when the page loop
\* has been left with every request answered and no write lost, the stored
\* contactsSyncToken is the non-empty token the remote returned with the listing.
C5_Original ==
    /\ \A a \in AccountSet :
          \A i \in 1..Len(Events("connections.list", a)) :
              Events("connections.list", a)[i].syncToken =
                  OrNone(config0[a].contactsSyncToken)
    /\ (PageLoopLeft /\ file = config) =>
          /\ config[Account].contactsSyncToken \notin {"", None}
          /\ config[Account].contactsSyncToken = SyncToken(remote.numPages)

\* ----------------------------------------------------------------- C6
\* C6 as stated: after a flow that failed for an account, its refresh_token is
\* still empty in memory, nothing was raised out of the provisioner, and no
\* fetch request is ever issued for that account (the run ends at its
\* get_credentials with the credentials-invalid exit).
C6_Original ==
    \A a \in AccountSet :
        flowResult[a] = None =>
            /\ config[a].refresh_token = ""
            /\ ~(pc = "generate" /\ status # "running")
            /\ status # "TypeError"
            /\ (Account = a /\ status # "running" /\ pc = "contacts") => status = "exit1"
            /\ \A i \in 1..Len(FetchRequests) : FetchRequests[i].account # a

\* ----------------------------------------------------------------- C7
\* C7: once get_credentials has found no valid credentials for an account, the
\* process has ended with a failure status and the history of requests,
\* snapshot writes and configuration writes is what it was at that call;
\* nothing in it, and no snapshot file, belongs to a later account.
C7_InvalidCredentialsEndRun ==
    \A f \in credFail :
        /\ status \in {"exit1", "RefreshError"}
        /\ Len(log) = f.at
        /\ \A i \in 1..Len(log) :
              AccountIndex(log[i].account) <= AccountIndex(f.account)
              \/ log[i].op = "write_credentials"
        /\ \A i \in 1..Len(FetchRequests) :
              AccountIndex(FetchRequests[i].account) <= AccountIndex(f.account)
        /\ \A k \in DOMAIN snapshots : AccountIndex(k[1]) <= AccountIndex(f.account)

\* get_credentials left through sys.exit(1) for Account1 at the group fetch:
\* Account1's contacts were fetched, nothing was done for Account2
C7_Witness ==
    /\ status = "exit1" /\ acct = 1 /\ pc = "groups"
    /\ credFail # {}
    /\ <<"Account1", "contacts">> \in DOMAIN snapshots
    /\ Len(Events("connections.list", "Account2")) = 0

\* ----------------------------------------------------------------- C8
LastEvent == log[Len(log)]

\* the latest operation was a write of the settings file, and it failed
ConfigWriteJustFailed ==
    Len(log) > 0 /\ LastEvent.op = "write_credentials" /\ ~lastWriteOk

\* C8 as stated: no failed write of a snapshot or of the settings file ends the
\* run (the run never ends with the error of a file write).
C8_Original == status # "IOError"

\* C8 amended: a failed write of the settings file is swallowed: the call that
\* made it returns and the run goes on to the operation that follows.  A failed
\* snapshot write is not caught: the error of a file write that ends a run
\* is that of a save_to_file call.
C8_ConfigWriteBestEffort ==
    /\ ConfigWriteJustFailed =>
          /\ status # "IOError"
          /\ \/ pc \in {"ensure", "contacts", "list", "batch", "save_contacts", "save_groups"}
             \/ (pc = "generate" /\ Account # LastEvent.account)
    /\ status = "IOError" => (Len(log) > 0 /\ LastEvent.op = "save_to_file")

\* the settings file could not be written after page 1 and the loop is about
\* to request page 2
C8_Witness ==
    /\ ConfigWriteJustFailed /\ status = "running"
    /\ AtNextPageRequest
    /\ file[Account].contactsSyncToken # config[Account].contactsSyncToken

\* ----------------------------------------------------------------- C9
GroupRequests(a) == Events("contactGroups.list", a)

BatchFailed == \E i \in 1..Len(batches) : "results" \notin DOMAIN batches[i]

\* the settings-file writes of the page loop of the current call
PageWrites ==
    Len(Events("write_credentials", Account)) - (IF FlowSucceeded(Account) THEN 1 ELSE 0)

\* a batch-get request that fails ends the run at that request
BatchFailureEndsRun == BatchFailed => (status = "HttpError" /\ pc = "batch")

\* C10 as stated: from the first batch-get request to the 'contacts' snapshot,
\* one settings-file write was made per page, the contactsSyncToken in memory
\* and in the settings file is the last page's nextSyncToken and no 'contacts'
\* snapshot of the account exists; a failed batch-get request ends the run there.
C10_Original ==
    /\ BatchFailureEndsRun
    /\ pc \in {"batch", "save_contacts"} =>
          /\ PageWrites = Len(PageRequests)
          /\ config[Account].contactsSyncToken = Get(results, "nextSyncToken")
          /\ file[Account].contactsSyncToken = Get(results, "nextSyncToken")
          /\ <<Account, "contacts">> \notin DOMAIN snapshots

\* C10 amended: as stated, except that the settings file holds the last page's
\* nextSyncToken only if the write_credentials call of the last page succeeded.
C10_TokenAdvancedBeforeBatchGet ==
    /\ BatchFailureEndsRun
    /\ pc \in {"batch", "save_contacts"} =>
          /\ PageWrites = Len(PageRequests)
          /\ config[Account].contactsSyncToken = Get(results, "nextSyncToken")
          /\ lastWriteOk => file[Account].contactsSyncToken = Get(results, "nextSyncToken")
          /\ <<Account, "contacts">> \notin DOMAIN snapshots

\* a batch-get request failed after a two-page listing: the new token is in
\* memory and in the file, and there is no 'contacts' snapshot
C10_Witness ==
    /\ BatchFailed /\ status = "HttpError"
    /\ remote.numPages = 2
    /\ config[Account].contactsSyncToken = SyncToken(2)
    /\ file[Account].contactsSyncToken = SyncToken(2)
    /\ config0[Account].contactsSyncToken # SyncToken(2)
    /\ <<Account, "contacts">> \notin DOMAIN snapshots

====
